---- MODULE Spec2Model ----
(***************************************************************************)
(* Model of the img_classification Django application: views.py (module    *)
(* initialisation, the model handle and the label table), models.py        *)
(* (EfficientNetB1Model: __init__, preprocess, predict), urls.py (the      *)
(* route table) and the classify_image request handler that urls.py        *)
(* imports from views.                                                     *)
(*                                                                         *)
(* Numbers produced by the network are fixed-point: a value v stands for   *)
(* v / Scale, so Scale is 1.0.                                             *)
(***************************************************************************)
EXTENDS Integers, Sequences, FiniteSets, TLC

\* ---------------------------------------------------------------- bounds
MaxDim == 2          \* widths and heights of uploaded images: 1..MaxDim
MaxPx == 2           \* number of distinct pictures (pixel contents)
MaxOutLen == 3       \* longest output tensor of the predict test harness
MaxVal == 2          \* harness output values range over -1..MaxVal
MaxIdx == 12         \* harness lookup indices range over -MaxIdx..MaxIdx

\* ------------------------------------------------------- program constants
InputSize == 240     \* image.resize((240, 240))
Scale == 90          \* fixed-point unit: Scale stands for 1.0

Reqs == {1, 2}       \* request slots of the serving layer
Pixels == 1..MaxPx
Dims == 1..MaxDim
Modes == {"RGB", "L", "RGBA"}

\* ------------------------------------------------------------- label table
\* views.py: LABELS
LabelList ==
    << "baby_products", "beauty_health", "clothing_accessories_jewellery",
       "electronics", "grocery", "hobby_arts_stationery",
       "home_kitchen_tools", "pet_supplies", "sports_outdoor" >>

NumLabels == Len(LabelList)

IndexError == "IndexError"

\* Python list indexing labels[i]: 0-based, negative indices count from the
\* end, anything else raises IndexError.
Lookup(labels, i) ==
    IF i \in 0..(Len(labels) - 1) THEN labels[i + 1]
    ELSE IF i \in (-Len(labels))..(-1) THEN labels[Len(labels) + i + 1]
    ELSE IndexError

\* ------------------------------------------------------------------ images
Images ==
    [mode : Modes, width : Dims, height : Dims, px : Pixels]

NoImage == [mode |-> "none", width |-> 0, height |-> 0, px |-> 0]

\* number of bands of a PIL mode
Bands(mode) ==
    CASE mode = "RGB" -> 3
      [] mode = "RGBA" -> 4
      [] OTHER -> 1

\* Image.convert('RGB')
ConvertRGB(image) == [image EXCEPT !.mode = "RGB"]

\* Image.resize((w, h))
Resize(image, w, h) == [image EXCEPT !.width = w, !.height = h]

\* np.array(image): (height, width, bands) of uint8, (height, width) for a
\* single-band image
ToArray(image) ==
    [shape |-> IF Bands(image.mode) = 1
               THEN << image.height, image.width >>
               ELSE << image.height, image.width, Bands(image.mode) >>,
     dtype |-> "uint8",
     data |-> image.px]

BadTensor == [shape |-> << >>, dtype |-> "error", data |-> 0]

\* arr.astype(t)
AsType(arr, t) == [arr EXCEPT !.dtype = t]

\* arr / 255.0 : a Python scalar keeps the array's float dtype
DivScalar(arr) ==
    [arr EXCEPT !.dtype = IF arr.dtype \in {"float32", "float64"}
                          THEN arr.dtype ELSE "float64"]

\* arr - [m0, m1, m2] or arr / [s0, s1, s2]: the list becomes a float64
\* array of shape (3,), broadcast against the last axis
BroadcastList3(arr) ==
    IF arr.dtype = "error" THEN BadTensor
    ELSE IF Len(arr.shape) >= 1 /\
            arr.shape[Len(arr.shape)] \in {1, 3}
         THEN [shape |-> [k \in 1..Len(arr.shape) |->
                            IF k = Len(arr.shape) THEN 3 ELSE arr.shape[k]],
               dtype |-> "float64",
               data |-> arr.data]
         ELSE BadTensor

\* np.transpose(arr, (2, 0, 1))
Transpose201(arr) ==
    IF arr.dtype = "error" \/ Len(arr.shape) # 3 THEN BadTensor
    ELSE [arr EXCEPT !.shape = << arr.shape[3], arr.shape[1], arr.shape[2] >>]

\* np.expand_dims(arr, axis=0)
ExpandDims0(arr) ==
    IF arr.dtype = "error" THEN BadTensor
    ELSE [arr EXCEPT !.shape = << 1 >> \o arr.shape]

\* EfficientNetB1Model.preprocess
preprocessNoConvert(image) ==
    LET resized == Resize(image, InputSize, InputSize)
        scaled == DivScalar(AsType(ToArray(resized), "float32"))
        normed == BroadcastList3(BroadcastList3(scaled))
        chw == Transpose201(normed)
        batched == ExpandDims0(chw)
    IN  IF batched.dtype = "error" THEN BadTensor
        ELSE AsType(batched, "float32")

preprocess(image) ==
    LET rgb == ConvertRGB(image)
        resized == Resize(rgb, InputSize, InputSize)
        scaled == DivScalar(AsType(ToArray(resized), "float32"))
        normed == BroadcastList3(BroadcastList3(scaled))
        chw == Transpose201(normed)
        batched == ExpandDims0(chw)
    IN  IF batched.dtype = "error" THEN BadTensor
        ELSE AsType(batched, "float32")

\* ------------------------------------------------------- the ONNX graph
\* An output tensor of the network with n classes.  "onehot" and "uniform"
\* are probability distributions, "logits" is not.
OutTensor(n, peak, kind) ==
    [k \in 1..n |->
        CASE kind = "onehot" -> IF k = peak THEN Scale ELSE 0
          [] kind = "uniform" -> Scale \div n
          [] OTHER -> IF k = peak THEN Scale + 1 ELSE -1]

OutLens == {NumLabels, NumLabels + 1}
Shifts == {0, NumLabels - 2, NumLabels - 1}
Kinds == {"onehot", "uniform", "logits"}

\* The contents of a loadable efficientnet_b1.onnx: the declared tensor
\* names and the function the weights compute, from the picture the input
\* tensor holds to the output tensor.
Graphs ==
    { [input_names |-> << "input" >>,
       output_names |-> << "output" >>,
       classes |-> n,
       net |-> [p \in Pixels |-> OutTensor(n, ((s + p - 1) % n) + 1, kind)]] :
         n \in OutLens, s \in Shifts, kind \in Kinds }

NoGraph ==
    [input_names |-> << >>, output_names |-> << >>, classes |-> 0,
     net |-> [p \in Pixels |-> << >>]]

\* ------------------------------------------------------ the model handle
NoModel == [session |-> NoGraph, input_name |-> "", output_name |-> ""]

\* EfficientNetB1Model.__init__ on a loadable graph
NewModel(g) ==
    [session |-> g,
     input_name |-> g.input_names[1],
     output_name |-> g.output_names[1]]

RunError == [ok |-> FALSE, outputs |-> << >>]

\* session.run(None, {name: tensor}): the list of output tensors, or a
\* runtime failure when the feed does not fit the graph's input
SessionRun(session, name, tensor) ==
    IF /\ Len(session.input_names) >= 1
       /\ name = session.input_names[1]
       /\ tensor.shape = << 1, 3, InputSize, InputSize >>
       /\ tensor.dtype = "float32"
       /\ tensor.data \in DOMAIN session.net
    THEN [ok |-> TRUE, outputs |-> << session.net[tensor.data] >>]
    ELSE RunError

\* np.max(o): linear scan
RECURSIVE MaxFrom(_, _, _)
MaxFrom(o, k, best) ==
    IF k > Len(o) THEN best
    ELSE MaxFrom(o, k + 1, IF o[k] > best THEN o[k] ELSE best)

NpMax(o) == MaxFrom(o, 2, o[1])

\* np.argmax(o): 0-based position of the first occurrence of the maximum
RECURSIVE ArgmaxFrom(_, _, _)
ArgmaxFrom(o, k, besti) ==
    IF k > Len(o) THEN besti - 1
    ELSE ArgmaxFrom(o, k + 1, IF o[k] > o[besti] THEN k ELSE besti)

NpArgmaxLast(o) == Len(o) - 1

NpArgmax(o) == ArgmaxFrom(o, 2, 1)

\* the exception predict lets through
NoResult == [ok |-> FALSE, index |-> 0, confidence |-> 0]

\* EfficientNetB1Model.predict.  self is the handle after the call (predict
\* assigns no attribute), ret is (prediction, confidence) or the failure
\* session.run raised.
predictStoresTensor(m, image) ==
    LET input_tensor == preprocess(image)
        run == SessionRun(m.session, m.input_name, input_tensor)
    IN  [self |-> [m EXCEPT !.input_name = "input_tensor"],
         ret |-> IF ~run.ok \/ Len(run.outputs[1]) = 0
                 THEN NoResult
                 ELSE [ok |-> TRUE,
                       index |-> NpArgmax(run.outputs[1]),
                       confidence |-> NpMax(run.outputs[1])]]

predict(m, image) ==
    LET input_tensor == preprocess(image)
        run == SessionRun(m.session, m.input_name, input_tensor)
    IN  [self |-> m,
         ret |-> IF ~run.ok \/ Len(run.outputs[1]) = 0
                 THEN NoResult
                 ELSE [ok |-> TRUE,
                       index |-> NpArgmax(run.outputs[1]),
                       confidence |-> NpMax(run.outputs[1])]]

\* ------------------------------------------------------------------ state
VARIABLES
    fs,           \* efficientnet_b1.onnx on disk: "missing", "invalid", "valid"
    graph,        \* what the file holds when it is loadable
    boot,         \* how far module initialisation has come
    views,        \* the names bound in the views module
    model,        \* views.model
    LABELS,       \* views.LABELS
    urlpatterns,  \* urls.urlpatterns: path -> view name
    req,          \* the requests in flight, one per slot
    unit          \* the call under test of the unit harness

vars == << fs, graph, boot, views, model, LABELS, urlpatterns, req, unit >>

NoResponse ==
    [status |-> 0, by |-> "", category |-> "", confidence |-> 0, error |-> ""]

NoUpload == [kind |-> "none", image |-> NoImage]

\* the images clients upload: square ones of every mode, side and picture
\* (preprocess resizes every image to InputSize x InputSize)
UploadImages == { img \in Images : img.width = img.height }

\* what a client can send as the upload
Uploads ==
    { [kind |-> k, image |-> NoImage] : k \in {"nofile", "empty", "corrupt"} }
    \cup { [kind |-> "image", image |-> img] : img \in UploadImages }

Paths == {"classify/", "other/"}

IdleReq ==
    [pc |-> "idle", path |-> "", input |-> NoUpload, image |-> NoImage,
     result |-> NoResult, response |-> NoResponse]

NoUnit ==
    [op |-> "none", done |-> FALSE, image |-> NoImage, output |-> << >>,
     index |-> 0, tensor |-> BadTensor, result |-> NoResult, label |-> ""]

Init ==
    /\ fs \in {"missing", "invalid", "valid"}
    /\ graph \in IF fs = "valid" THEN Graphs ELSE {NoGraph}
    /\ boot = "start"
    /\ views = {}
    /\ model = NoModel
    /\ LABELS = << >>
    /\ urlpatterns = << >>
    /\ req = [r \in Reqs |-> IdleReq]
    /\ unit = NoUnit

\* ------------------------------------------------ module initialisation
\* views.py: onnx_path = ...; if not os.path.exists(onnx_path): raise
CheckModelPath ==
    /\ boot = "start"
    /\ IF fs = "missing"
       THEN /\ boot' = "failed"
            /\ views' = {}
       ELSE /\ boot' = "checked"
            /\ views' = views \cup {"onnx_path"}
    /\ UNCHANGED << fs, graph, model, LABELS, urlpatterns, req, unit >>

\* views.py: model = EfficientNetB1Model(onnx_path).  rt.InferenceSession
\* raises on a file that is not a loadable graph, and then neither an
\* attribute of the object nor the name `model` is bound.
ConstructModelLazily ==
    /\ boot = "checked"
    /\ boot' = "constructed"
    /\ model' = IF fs = "valid" THEN NewModel(graph)
                ELSE [NoModel EXCEPT !.input_name = "unloaded"]
    /\ views' = views \cup {"model"}
    /\ UNCHANGED << fs, graph, LABELS, urlpatterns, req, unit >>

ConstructModel ==
    /\ boot = "checked"
    /\ IF fs = "valid"
       THEN /\ boot' = "constructed"
            /\ model' = NewModel(graph)
            /\ views' = views \cup {"model"}
       ELSE /\ boot' = "failed"
            /\ model' = model
            /\ views' = {}
    /\ UNCHANGED << fs, graph, LABELS, urlpatterns, req, unit >>

\* views.py: LABELS = [...]
DefineLabels ==
    /\ boot = "constructed"
    /\ boot' = "labels"
    /\ LABELS' = LabelList
    /\ views' = views \cup {"LABELS"}
    /\ UNCHANGED << fs, graph, model, urlpatterns, req, unit >>

\* views.py: def classify_image(request)
DefineHandler ==
    /\ boot = "labels"
    /\ boot' = "views_loaded"
    /\ views' = views \cup {"classify_image"}
    /\ UNCHANGED << fs, graph, model, LABELS, urlpatterns, req, unit >>

\* urls.py: path('classify/', classify_image, name='image_classification')
RouteListNoSlash ==
    << [route |-> "classify", view |-> "classify_image",
        name |-> "image_classification"] >>

RouteList ==
    << [route |-> "classify/", view |-> "classify_image",
        name |-> "image_classification"] >>

\* urls.py: from .views import classify_image; urlpatterns = [...]
LoadUrls ==
    /\ boot = "views_loaded"
    /\ IF "classify_image" \in views
       THEN /\ boot' = "serving"
            /\ urlpatterns' = RouteList
       ELSE /\ boot' = "failed"
            /\ urlpatterns' = urlpatterns
    /\ UNCHANGED << fs, graph, views, model, LABELS, req, unit >>

\* the view the first matching pattern names, "" when none matches
RECURSIVE ResolveFrom(_, _, _)
ResolveFrom(patterns, path, k) ==
    IF k > Len(patterns) THEN ""
    ELSE IF patterns[k].route = path THEN patterns[k].view
    ELSE ResolveFrom(patterns, path, k + 1)

Resolve(patterns, path) == ResolveFrom(patterns, path, 1)

\* ---------------------------------------------------------------- requests
\* A request arrives and the route table dispatches it.
Receive(r, path, upload) ==
    /\ boot = "serving"
    /\ req[r].pc = "idle"
    /\ IF Resolve(urlpatterns, path) = "classify_image"
       THEN req' = [req EXCEPT ![r] =
                      [IdleReq EXCEPT !.pc = "received", !.path = path,
                                      !.input = upload]]
       ELSE req' = [req EXCEPT ![r] =
                      [IdleReq EXCEPT !.pc = "done", !.path = path,
                                      !.input = upload,
                                      !.response =
                                         [NoResponse EXCEPT !.status = 404,
                                                            !.by = "resolver"]]]
    /\ UNCHANGED << fs, graph, boot, views, model, LABELS, urlpatterns, unit >>

ClientError(msg) ==
    [NoResponse EXCEPT !.status = 400, !.by = "classify_image", !.error = msg]

ServerError(msg) ==
    [NoResponse EXCEPT !.status = 500, !.by = "classify_image", !.error = msg]

\* an exception that leaves the handler: the framework answers
Unhandled(exc) ==
    [NoResponse EXCEPT !.status = 500, !.by = "framework", !.error = exc]

\* classify_image: read the upload and decode it as an image
Decode(r) ==
    /\ req[r].pc = "received"
    /\ req' = [req EXCEPT ![r] =
         CASE req[r].input.kind = "nofile" ->
                [@ EXCEPT !.pc = "done",
                          !.response = ClientError("no file uploaded")]
           [] req[r].input.kind = "empty" ->
                [@ EXCEPT !.pc = "done",
                          !.response = ClientError("empty upload")]
           [] req[r].input.kind = "corrupt" ->
                [@ EXCEPT !.pc = "done",
                          !.response = ClientError("cannot decode image")]
           [] OTHER ->
                [@ EXCEPT !.pc = "decoded", !.image = req[r].input.image]]
    /\ UNCHANGED << fs, graph, boot, views, model, LABELS, urlpatterns, unit >>

\* classify_image: model.predict(image)
Predict(r) ==
    /\ req[r].pc = "decoded"
    /\ LET call == predict(model, req[r].image)
       IN  /\ model' = call.self
           /\ req' = [req EXCEPT ![r] =
                 IF call.ret.ok
                 THEN [@ EXCEPT !.pc = "predicted", !.result = call.ret]
                 ELSE [@ EXCEPT !.pc = "done",
                                !.response = ServerError("inference failed")]]
    /\ UNCHANGED << fs, graph, boot, views, LABELS, urlpatterns, unit >>

\* classify_image: LABELS[prediction] and the response
Respond(r) ==
    /\ req[r].pc = "predicted"
    /\ LET label == Lookup(LABELS, req[r].result.index)
       IN  req' = [req EXCEPT ![r] =
             IF label = IndexError
             THEN [@ EXCEPT !.pc = "done",
                            !.response = Unhandled(IndexError)]
             ELSE [@ EXCEPT !.pc = "done",
                            !.response =
                               [NoResponse EXCEPT
                                  !.status = 200,
                                  !.by = "classify_image",
                                  !.category = label,
                                  !.confidence = req[r].result.confidence]]]
    /\ UNCHANGED << fs, graph, boot, views, model, LABELS, urlpatterns, unit >>

\* the response is sent and the slot is free again
Finish(r) ==
    /\ req[r].pc = "done"
    /\ req' = [req EXCEPT ![r] = IdleReq]
    /\ UNCHANGED << fs, graph, boot, views, model, LABELS, urlpatterns, unit >>

Next ==
    \/ CheckModelPath
    \/ ConstructModel
    \/ DefineLabels
    \/ DefineHandler
    \/ LoadUrls
    \/ \E r \in Reqs, path \in Paths, upload \in Uploads :
          Receive(r, path, upload)
    \/ \E r \in Reqs : Decode(r)
    \/ \E r \in Reqs : Predict(r)
    \/ \E r \in Reqs : Respond(r)
    \/ \E r \in Reqs : Finish(r)

Spec == Init /\ [][Next]_vars

\* ------------------------------------------------------- unit harness
\* Calls of preprocess, predict and the label lookup on inputs drawn from
\* bounded sets, outside any request.
RECURSIVE SeqsUpTo(_, _)
SeqsUpTo(S, n) ==
    IF n = 0 THEN { << >> }
    ELSE LET shorter == SeqsUpTo(S, n - 1)
         IN  shorter \cup { Append(q, v) : q \in shorter, v \in S }

TestOutputs == SeqsUpTo((-1)..MaxVal, MaxOutLen) \ { << >> }
TestIndices == (-MaxIdx)..MaxIdx

\* a handle whose session answers every picture with the output o
HarnessModel(o) ==
    NewModel([input_names |-> << "input" >>, output_names |-> << "output" >>,
              classes |-> Len(o), net |-> [p \in Pixels |-> o]])

UnitInit ==
    /\ fs = "valid"
    /\ graph = NoGraph
    /\ boot = "start"
    /\ views = {}
    /\ model = NoModel
    /\ LABELS = LabelList
    /\ urlpatterns = << >>
    /\ req = [r \in Reqs |-> IdleReq]
    /\ unit \in
         { [NoUnit EXCEPT !.op = "preprocess", !.image = img] : img \in Images }
         \cup { [NoUnit EXCEPT !.op = "predict", !.image = img, !.output = o] :
                  img \in Images, o \in TestOutputs }
         \cup { [NoUnit EXCEPT !.op = "lookup", !.index = i] : i \in TestIndices }

CallPreprocess ==
    /\ unit.op = "preprocess" /\ ~unit.done
    /\ unit' = [unit EXCEPT !.done = TRUE, !.tensor = preprocess(unit.image)]
    /\ UNCHANGED << fs, graph, boot, views, model, LABELS, urlpatterns, req >>

CallPredict ==
    /\ unit.op = "predict" /\ ~unit.done
    /\ unit' = [unit EXCEPT
                  !.done = TRUE,
                  !.result = predict(HarnessModel(unit.output), unit.image).ret]
    /\ UNCHANGED << fs, graph, boot, views, model, LABELS, urlpatterns, req >>

CallLookup ==
    /\ unit.op = "lookup" /\ ~unit.done
    /\ unit' = [unit EXCEPT !.done = TRUE,
                            !.label = Lookup(LABELS, unit.index)]
    /\ UNCHANGED << fs, graph, boot, views, model, LABELS, urlpatterns, req >>

UnitNext ==
    \/ CallPreprocess
    \/ CallPredict
    \/ CallLookup

SpecUnit == UnitInit /\ [][UnitNext]_vars

\* ------------------------------------------------------------ properties
InvalidKinds == {"nofile", "empty", "corrupt"}

\* C1: when efficientnet_b1.onnx is missing or is not a loadable graph,
\* initialisation of the views module fails: the name `model` is never
\* bound, no route is installed and no request is ever taken up.
C1_StartupFailureIsFatal ==
    (fs # "valid" \/ boot = "failed") =>
        /\ boot \in {"start", "checked", "failed"}
        /\ model = NoModel
        /\ "model" \notin views
        /\ urlpatterns = << >>
        /\ \A r \in Reqs : req[r] = IdleReq

C1_Witness == boot = "failed" /\ fs = "missing" /\ model = NoModel

\* C2: a request to classify/ with no upload field, an empty payload or
\* undecodable bytes is answered by the handler itself with a client error
\* carrying a message; it never reaches predict, never leaves the handler as
\* an exception, and the process stays in service.
C2_InvalidInputState ==
    \A r \in Reqs :
        (req[r].path = "classify/" /\ req[r].input.kind \in InvalidKinds) =>
            /\ boot = "serving"
            /\ req[r].pc \in {"received", "done"}
            /\ req[r].pc = "done" =>
                  /\ req[r].response.status \in 400..499
                  /\ req[r].response.by = "classify_image"
                  /\ req[r].response.error # ""

C3_OutOfRangeIsServerError ==
    \A r \in Reqs :
        (req[r].pc = "done" /\ req[r].result.ok
            /\ req[r].result.index \notin 0..(NumLabels - 1)) =>
            /\ req[r].response.status \in 500..599
            /\ req[r].response.by = "classify_image"
            /\ req[r].response.category = ""

\* C4: the handle and the label table are bound once, before any request is
\* taken up, and no step changes either of them afterwards.
C4_SingletonsState ==
    \A r \in Reqs :
        req[r].pc # "idle" =>
            /\ {"model", "LABELS"} \subseteq views
            /\ model = NewModel(graph)
            /\ LABELS = LabelList

C4_SingletonsNeverChange ==
    /\ []C4_SingletonsState
    /\ [][/\ "model" \in views => model' = model
          /\ "LABELS" \in views => LABELS' = LABELS]_vars

C4_Witness ==
    /\ req[1].pc = "done" /\ req[1].response.status = 200
    /\ req[2].pc = "done" /\ req[2].response.status = 400
    /\ model = NewModel(graph) /\ LABELS = LabelList

\* C5 (as claimed): the lookup returns "baby_products" for 0 and
\* "sports_outdoor" for 8 and fails for every index outside 0..8.
C5_LookupRange ==
    (unit.op = "lookup" /\ unit.done) =>
        /\ unit.index = 0 => unit.label = "baby_products"
        /\ unit.index = 8 => unit.label = "sports_outdoor"
        /\ unit.index \notin 0..8 => unit.label = IndexError

\* C6 (as claimed): every request to classify/ with a decodable image ends
\* in a success response of the handler whose category is the label at the
\* index predict returned and whose confidence is the one predict returned.
C6_DecodableImageSucceeds ==
    \A r \in Reqs :
        (req[r].pc = "done" /\ req[r].path = "classify/"
            /\ req[r].input.kind = "image") =>
            /\ req[r].response.status = 200
            /\ req[r].response.by = "classify_image"
            /\ req[r].result.ok
            /\ req[r].result.index \in 0..(NumLabels - 1)
            /\ req[r].response.category = LabelList[req[r].result.index + 1]
            /\ req[r].response.confidence = req[r].result.confidence

\* C7: predict returns (i, c) with c the maximum of the output tensor, the
\* output's value at position i equal to c and no value above c.
C7_ArgmaxAndMaxAgree ==
    (unit.op = "predict" /\ unit.done) =>
        /\ unit.result.ok
        /\ unit.result.index \in 0..(Len(unit.output) - 1)
        /\ unit.output[unit.result.index + 1] = unit.result.confidence
        /\ \A k \in 1..Len(unit.output) :
              unit.output[k] <= unit.result.confidence

C7_Witness ==
    /\ unit.op = "predict" /\ unit.done
    /\ unit.output = << 0, 2, 2 >>
    /\ unit.result = [ok |-> TRUE, index |-> 1, confidence |-> 2]

RECURSIVE SumFrom(_, _)
SumFrom(o, k) == IF k > Len(o) THEN 0 ELSE o[k] + SumFrom(o, k + 1)

ValidDistribution(o) ==
    /\ \A k \in 1..Len(o) : o[k] >= 0
    /\ SumFrom(o, 1) = Scale

\* C8 (as claimed): the index predict returns is always in 0..8, and the
\* confidence is within [0.0, 1.0] when the output is a distribution.
C8_IndexAndConfidenceRange ==
    \A r \in Reqs :
        req[r].result.ok =>
            /\ req[r].result.index \in 0..8
            /\ ValidDistribution(graph.net[req[r].image.px]) =>
                  req[r].result.confidence \in 0..Scale

\* C9: preprocess returns a float32 array of shape [1, 3, 240, 240] for
\* every colour mode, width and height.
C9_PreprocessShape ==
    (unit.op = "preprocess" /\ unit.done) =>
        /\ unit.tensor.shape = << 1, 3, 240, 240 >>
        /\ unit.tensor.dtype = "float32"

C9_Witness ==
    /\ unit.op = "preprocess" /\ unit.done
    /\ unit.image.mode = "RGBA" /\ unit.image.width # unit.image.height
    /\ unit.tensor.shape = << 1, 3, 240, 240 >>

HasPredicted(r) ==
    req[r].image # NoImage /\ req[r].pc \in {"predicted", "done"}

\* C10: two predict calls on the same image with the same loaded model give
\* the same (index, confidence), whatever calls ran before or between them.
C10_PredictDeterministic ==
    \A r1, r2 \in Reqs :
        (HasPredicted(r1) /\ HasPredicted(r2)
            /\ req[r1].image = req[r2].image) =>
            req[r1].result = req[r2].result

C10_Witness ==
    /\ HasPredicted(1) /\ HasPredicted(2)
    /\ req[1].image = req[2].image
    /\ req[1].result.ok /\ req[1].result = req[2].result

====
